---- MODULE Spec2Model ----
(***************************************************************************)
(* GHOST_WindowWayland (intern/ghost/intern/GHOST_WindowWayland.cpp):      *)
(* the Wayland window of GHOST, its libdecor frame callbacks and the       *)
(* host-driven calls on it.                                                *)
(*                                                                         *)
(* One window is modelled.  Every callback and every method runs to        *)
(* completion on the single GHOST thread, so each is one action.  The      *)
(* calls a handler makes on its collaborators (libdecor, wayland-egl, the  *)
(* GHOST system's event queue and window manager) are recorded, in order,  *)
(* in `calls`, each with the window_t fields and the live handles as they  *)
(* are when the call is made.                                              *)
(***************************************************************************)
EXTENDS Integers, Sequences, FiniteSets, TLC

VARIABLES
  win,         \* window_t: is_maximised, is_fullscreen, is_active, is_dialog, width, height
  egl_window,  \* the wl_egl_window: its size and offset
  live,        \* the handles not yet released: w, surface, egl_window, frame
  title,       \* GHOST_WindowWayland::title
  ctor,        \* the width and height the constructor was called with
  hist,        \* which kinds of configuration notification have been handled
  op,          \* the operation that ran last, with its arguments and its result
  calls        \* the collaborator calls that operation made, in order

vars == <<win, egl_window, live, title, ctor, hist, op, calls>>

-----------------------------------------------------------------------------
(* Bounds and inputs *)

\* Width in bits of the model's int32_t / GHOST_TUns32 (32 in the build).
IntBits == 6

\* The largest content size a configuration notification carries.
MaxConfigSize == 3

UnsMax == 2^IntBits - 1

\* GHOST_TUns32 arguments tried: a small size and the largest value.
UnsSizes == {2, UnsMax}

\* Width and height given to the constructor and to setClientSize.
UnsPairs == {<<2, 2>>, <<UnsMax, 2>>, <<2, UnsMax>>}

\* Content sizes (width, height) libdecor reports.
ConfigSizes == {<<1, MaxConfigSize>>, <<MaxConfigSize, 1>>}

Titles == {"Blender"}

-----------------------------------------------------------------------------
(* Integer conversions *)

\* int32_t(x) / int(x) of a GHOST_TUns32
ToInt32(u) == IF u >= 2^(IntBits - 1) THEN u - 2^IntBits ELSE u

\* GHOST_TUns32(x) of an int32_t
ToUns32(i) == i % (2^IntBits)

-----------------------------------------------------------------------------
(* Enumerations *)

GHOST_kFailure == "GHOST_kFailure"
GHOST_kSuccess == "GHOST_kSuccess"

GHOST_kWindowStateNormal == "GHOST_kWindowStateNormal"
GHOST_kWindowStateMaximized == "GHOST_kWindowStateMaximized"
GHOST_kWindowStateMinimized == "GHOST_kWindowStateMinimized"
GHOST_kWindowStateFullScreen == "GHOST_kWindowStateFullScreen"
GHOST_kWindowStateEmbedded == "GHOST_kWindowStateEmbedded"

GHOST_TWindowState ==
  { GHOST_kWindowStateNormal, GHOST_kWindowStateMaximized,
    GHOST_kWindowStateMinimized, GHOST_kWindowStateFullScreen,
    GHOST_kWindowStateEmbedded }

\* GHOST_TDrawingContextType, as newDrawingContext's switch knows it
GHOST_kDrawingContextTypeNone == "GHOST_kDrawingContextTypeNone"
GHOST_kDrawingContextTypeOpenGL == "GHOST_kDrawingContextTypeOpenGL"

GHOST_TDrawingContextType ==
  { GHOST_kDrawingContextTypeNone, GHOST_kDrawingContextTypeOpenGL }

GHOST_kEventWindowClose == "GHOST_kEventWindowClose"
GHOST_kEventWindowActivate == "GHOST_kEventWindowActivate"
GHOST_kEventWindowDeactivate == "GHOST_kEventWindowDeactivate"
GHOST_kEventWindowSize == "GHOST_kEventWindowSize"

\* enum libdecor_window_state: a bit mask
LIBDECOR_WINDOW_STATE_NONE == 0
LIBDECOR_WINDOW_STATE_ACTIVE == 1
LIBDECOR_WINDOW_STATE_MAXIMIZED == 2
LIBDECOR_WINDOW_STATE_FULLSCREEN == 4

WindowStates == 0 .. 7

\* (window_state & flag) converted to bool; flag is a single bit
HasFlag(window_state, flag) == (window_state \div flag) % 2 = 1

-----------------------------------------------------------------------------
(* A handler's context: the fields it reads and writes, its call log and   *)
(* its return value.                                                       *)

Ctx == [win |-> win, egl_window |-> egl_window, live |-> live, title |-> title,
        calls |-> <<>>, result |-> "void"]

\* One collaborator call: its name, its arguments, and the state it sees.
Call(m, name, kind, a, b) ==
  [call |-> name, kind |-> kind, a |-> a, b |-> b, win |-> m.win, live |-> m.live]

Log(m, name, kind, a, b) ==
  [m EXCEPT !.calls = Append(@, Call(m, name, kind, a, b))]

\* The handle a collaborator call works on.
HandleOf(name) ==
  CASE name \in {"libdecor_frame_commit", "libdecor_frame_unref",
                 "libdecor_frame_set_app_id", "libdecor_frame_set_title",
                 "libdecor_frame_unset_maximized", "libdecor_frame_unset_fullscreen",
                 "libdecor_frame_set_maximized", "libdecor_frame_set_minimized",
                 "libdecor_frame_set_fullscreen", "libdecor_frame_map",
                 "libdecor_frame_set_parent"} -> {"frame"}
    [] name \in {"wl_egl_window_resize", "wl_egl_window_destroy",
                 "new GHOST_ContextEGL"} -> {"egl_window"}
    [] name \in {"wl_surface_destroy", "wl_surface_set_user_data",
                 "wl_egl_window_create", "libdecor_decorate"} -> {"surface"}
    [] OTHER -> {}

\* The call's entry holds the size; the offset it asks for is in egl_window.
wl_egl_window_resize(m, width, height, dx, dy) ==
  [Log(m, "wl_egl_window_resize", "", width, height) EXCEPT
     !.egl_window = [width |-> width, height |-> height, dx |-> dx, dy |-> dy]]

pushEvent(m, type) ==
  [Log(m, "pushEvent", type, 0, 0) EXCEPT !.result = GHOST_kSuccess]

-----------------------------------------------------------------------------
(* GHOST_WindowWayland *)

\* Mutant: maximized is tested before fullscreen.
getState_maximized_first(w) ==
  IF w.is_maximised THEN GHOST_kWindowStateMaximized
  ELSE IF w.is_fullscreen THEN GHOST_kWindowStateFullScreen
  ELSE GHOST_kWindowStateNormal

getState(w) ==
  IF w.is_fullscreen THEN GHOST_kWindowStateFullScreen
  ELSE IF w.is_maximised THEN GHOST_kWindowStateMaximized
  ELSE GHOST_kWindowStateNormal

getClientBounds(w) == <<0, 0, w.width, w.height>>

getWindowBounds(w) == getClientBounds(w)

getTitle(t) == IF t = "" THEN "untitled" ELSE t

isDialog(w) == w.is_dialog

close(m) == pushEvent(m, GHOST_kEventWindowClose)

\* Mutant: the window manager's answer is not checked.
activate_ignores_failure(m, wm_ok) ==
  pushEvent(Log(m, "setActiveWindow",
                IF wm_ok THEN GHOST_kSuccess ELSE GHOST_kFailure, 0, 0),
            GHOST_kEventWindowActivate)

activate(m, wm_ok) ==
  IF ~wm_ok
    THEN [Log(m, "setActiveWindow", GHOST_kFailure, 0, 0) EXCEPT !.result = GHOST_kFailure]
    ELSE pushEvent(Log(m, "setActiveWindow", GHOST_kSuccess, 0, 0),
                   GHOST_kEventWindowActivate)

deactivate(m) ==
  pushEvent(Log(m, "setWindowInactive", "", 0, 0), GHOST_kEventWindowDeactivate)

notify_size(m) == pushEvent(m, GHOST_kEventWindowSize)

setTitle(m, t) ==
  [Log(Log(m, "libdecor_frame_set_app_id", t, 0, 0),
       "libdecor_frame_set_title", t, 0, 0) EXCEPT !.title = t]

\* Mutant: the size is stored, width and height exchanged.
setClientSize_stores_swapped(m, width, height) ==
  [wl_egl_window_resize(m, ToInt32(width), ToInt32(height), 0, 0) EXCEPT
     !.win.width = ToInt32(height),
     !.win.height = ToInt32(width),
     !.result = GHOST_kSuccess]

setClientSize(m, width, height) ==
  [wl_egl_window_resize(m, ToInt32(width), ToInt32(height), 0, 0) EXCEPT
     !.result = GHOST_kSuccess]

setClientWidth(m, width) == setClientSize(m, width, ToUns32(m.win.height))

setClientHeight(m, height) == setClientSize(m, ToUns32(m.win.width), height)

\* Mutant: the two unset calls are exchanged.
setState_normal_swapped(m) ==
  CASE getState(m.win) = GHOST_kWindowStateMaximized ->
         Log(m, "libdecor_frame_unset_fullscreen", "", 0, 0)
    [] getState(m.win) = GHOST_kWindowStateFullScreen ->
         Log(m, "libdecor_frame_unset_maximized", "", 0, 0)
    [] OTHER -> m

\* lines 310-322: case GHOST_kWindowStateNormal, "Unset states"
setState_normal(m) ==
  CASE getState(m.win) = GHOST_kWindowStateMaximized ->
         Log(m, "libdecor_frame_unset_maximized", "", 0, 0)
    [] getState(m.win) = GHOST_kWindowStateFullScreen ->
         Log(m, "libdecor_frame_unset_fullscreen", "", 0, 0)
    [] OTHER -> m

\* Mutant: the embedded case breaks out of the switch instead of returning.
setState_embedded_succeeds(m) == [m EXCEPT !.result = GHOST_kSuccess]

\* lines 332-333: case GHOST_kWindowStateEmbedded
setState_embedded(m) == [m EXCEPT !.result = GHOST_kFailure]

\* Mutant: the minimized case lacks its break and runs into the fullscreen case.
setState_minimized_falls_through(m, state) ==
  CASE state = GHOST_kWindowStateNormal ->
         [setState_normal(m) EXCEPT !.result = GHOST_kSuccess]
    [] state = GHOST_kWindowStateMaximized ->
         [Log(m, "libdecor_frame_set_maximized", "", 0, 0) EXCEPT
            !.result = GHOST_kSuccess]
    [] state = GHOST_kWindowStateMinimized ->
         [Log(Log(m, "libdecor_frame_set_minimized", "", 0, 0),
              "libdecor_frame_set_fullscreen", "", 0, 0) EXCEPT
            !.result = GHOST_kSuccess]
    [] state = GHOST_kWindowStateFullScreen ->
         [Log(m, "libdecor_frame_set_fullscreen", "", 0, 0) EXCEPT
            !.result = GHOST_kSuccess]
    [] state = GHOST_kWindowStateEmbedded -> setState_embedded(m)
    [] OTHER -> [m EXCEPT !.result = GHOST_kSuccess]

setState(m, state) ==
  CASE state = GHOST_kWindowStateNormal ->
         [setState_normal(m) EXCEPT !.result = GHOST_kSuccess]
    [] state = GHOST_kWindowStateMaximized ->
         [Log(m, "libdecor_frame_set_maximized", "", 0, 0) EXCEPT
            !.result = GHOST_kSuccess]
    [] state = GHOST_kWindowStateMinimized ->
         [Log(m, "libdecor_frame_set_minimized", "", 0, 0) EXCEPT
            !.result = GHOST_kSuccess]
    [] state = GHOST_kWindowStateFullScreen ->
         [Log(m, "libdecor_frame_set_fullscreen", "", 0, 0) EXCEPT
            !.result = GHOST_kSuccess]
    [] state = GHOST_kWindowStateEmbedded -> setState_embedded(m)
    [] OTHER -> [m EXCEPT !.result = GHOST_kSuccess]

\* Mutant: the fullscreen flag is set in anticipation of the compositor.
beginFullScreen_sets_flag(m) ==
  [Log(m, "libdecor_frame_set_fullscreen", "", 0, 0) EXCEPT
     !.win.is_fullscreen = TRUE,
     !.result = GHOST_kSuccess]

beginFullScreen(m) ==
  [Log(m, "libdecor_frame_set_fullscreen", "", 0, 0) EXCEPT !.result = GHOST_kSuccess]

endFullScreen(m) ==
  [Log(m, "libdecor_frame_unset_fullscreen", "", 0, 0) EXCEPT !.result = GHOST_kSuccess]

\* Mutant: the context is returned whatever its initialisation reports.
newDrawingContext_unchecked(m, type, init_ok) ==
  LET class == IF type = GHOST_kDrawingContextTypeNone
                 THEN "GHOST_ContextNone" ELSE "GHOST_ContextEGL"
      m1 == Log(m, "new " \o class, "", 0, 0)
      m2 == Log(m1, "initializeDrawingContext",
                IF init_ok THEN GHOST_kSuccess ELSE GHOST_kFailure, 0, 0)
  IN  [m2 EXCEPT !.result = class]

\* The context is constructed for the type, then initialised; init_ok is what
\* initializeDrawingContext reports.  The result is the context, named by its
\* class, or nullptr (the context constructed is then not deleted).
newDrawingContext(m, type, init_ok) ==
  LET class == IF type = GHOST_kDrawingContextTypeNone
                 THEN "GHOST_ContextNone" ELSE "GHOST_ContextEGL"
      m1 == Log(m, "new " \o class, "", 0, 0)
      m2 == Log(m1, "initializeDrawingContext",
                IF init_ok THEN GHOST_kSuccess ELSE GHOST_kFailure, 0, 0)
  IN  [m2 EXCEPT !.result = IF init_ok THEN class ELSE "nullptr"]

\* A handle's release: the call is made, and the handle is live no longer.
Release(m, name, handle) ==
  [Log(m, name, "", 0, 0) EXCEPT !.live = @ \ {handle}]

\* Mutant: the surface is destroyed before the frame is released.
Destructor_surface_first(m) ==
  LET m1 == Log(m, "releaseNativeHandles", "", 0, 0)
      m2 == Release(m1, "wl_egl_window_destroy", "egl_window")
      m3 == Release(m2, "wl_surface_destroy", "surface")
      m4 == Release(m3, "libdecor_frame_unref", "frame")
  IN  [m4 EXCEPT !.live = @ \ {"w"}]

Destructor(m) ==
  LET m1 == Log(m, "releaseNativeHandles", "", 0, 0)
      m2 == Release(m1, "libdecor_frame_unref", "frame")
      m3 == Release(m2, "wl_egl_window_destroy", "egl_window")
      m4 == Release(m3, "wl_surface_destroy", "surface")
  IN  [m4 EXCEPT !.live = @ \ {"w"}]

-----------------------------------------------------------------------------
(* The libdecor frame callbacks.  A configuration is the record            *)
(* [has_size, width, height, has_state, window_state].                     *)

\* Mutant: the out parameters are used whether or not they were set.
frame_configure_size_unset(w, cfg) == <<cfg.width, cfg.height>>

\* lines 63-66: the content size, or the current size when there is none
frame_configure_size(w, cfg) ==
  IF cfg.has_size THEN <<cfg.width, cfg.height>> ELSE <<w.width, w.height>>

\* Mutant: the size event is pushed before the size is adopted.
frame_configure_resize_notify_first(m, size) ==
  LET m1 == notify_size(m)
      m2 == [m1 EXCEPT !.win.width = size[1], !.win.height = size[2]]
  IN  wl_egl_window_resize(m2, m2.win.width, m2.win.height, 0, 0)

\* Mutant: resize and notify only when the size differs.
frame_configure_resize_on_change(m, size) ==
  IF size = <<m.win.width, m.win.height>>
    THEN m
    ELSE notify_size(wl_egl_window_resize(
           [m EXCEPT !.win.width = size[1], !.win.height = size[2]],
           size[1], size[2], 0, 0))

\* lines 68-72: adopt the size, resize the EGL window, notify
frame_configure_resize(m, size) ==
  LET m1 == [m EXCEPT !.win.width = size[1], !.win.height = size[2]]
      m2 == wl_egl_window_resize(m1, m1.win.width, m1.win.height, 0, 0)
  IN  notify_size(m2)

\* lines 74-75
frame_configure_window_state(cfg) ==
  IF cfg.has_state THEN cfg.window_state ELSE LIBDECOR_WINDOW_STATE_NONE

\* Mutant: the maximized and the fullscreen mask are exchanged.
frame_configure_flags_swapped(m, window_state) ==
  [m EXCEPT
     !.win.is_maximised = HasFlag(window_state, LIBDECOR_WINDOW_STATE_FULLSCREEN),
     !.win.is_fullscreen = HasFlag(window_state, LIBDECOR_WINDOW_STATE_MAXIMIZED),
     !.win.is_active = HasFlag(window_state, LIBDECOR_WINDOW_STATE_ACTIVE)]

\* lines 77-79
frame_configure_flags(m, window_state) ==
  [m EXCEPT
     !.win.is_maximised = HasFlag(window_state, LIBDECOR_WINDOW_STATE_MAXIMIZED),
     !.win.is_fullscreen = HasFlag(window_state, LIBDECOR_WINDOW_STATE_FULLSCREEN),
     !.win.is_active = HasFlag(window_state, LIBDECOR_WINDOW_STATE_ACTIVE)]

\* Mutant: activation and deactivation only when the active flag changed
\* (the first call of the handler saw the flag as it was).
frame_configure_activate_on_change(m, wm_ok) ==
  IF m.win.is_active = m.calls[1].win.is_active
    THEN m
    ELSE IF m.win.is_active THEN activate(m, wm_ok) ELSE deactivate(m)

\* line 81
frame_configure_activate(m, wm_ok) ==
  IF m.win.is_active THEN activate(m, wm_ok) ELSE deactivate(m)

\* Mutant: no acknowledgement once activate has reported failure.
frame_configure_commit_unless_failed(m, size) ==
  IF m.result = GHOST_kFailure
    THEN m
    ELSE Log(Log(Log(m, "libdecor_state_new", "", size[1], size[2]),
                 "libdecor_frame_commit", "", size[1], size[2]),
             "libdecor_state_free", "", 0, 0)

\* lines 83-85
frame_configure_commit(m, size) ==
  LET m1 == Log(m, "libdecor_state_new", "", size[1], size[2])
      m2 == Log(m1, "libdecor_frame_commit", "", size[1], size[2])
  IN  Log(m2, "libdecor_state_free", "", 0, 0)

frame_configure(m, cfg, wm_ok) ==
  LET size == frame_configure_size(m.win, cfg)
      m1 == frame_configure_resize(m, size)
      m2 == frame_configure_flags(m1, frame_configure_window_state(cfg))
      m3 == frame_configure_activate(m2, wm_ok)
      m4 == frame_configure_commit(m3, size)
  IN  [m4 EXCEPT !.result = "void"]

\* Mutant: the close notification tears the window down itself.
frame_close_destroys(m) == [Destructor(close(m)) EXCEPT !.result = "void"]

frame_close(m) == [close(m) EXCEPT !.result = "void"]

swapBuffers(m) == Log(m, "swapBuffers", "", 0, 0)

frame_commit(m) == [swapBuffers(swapBuffers(m)) EXCEPT !.result = "void"]

-----------------------------------------------------------------------------
(* Construction.  `new window_t` leaves is_maximised, is_fullscreen and    *)
(* is_active uninitialised: `garbage` is whatever they hold.  The three    *)
(* round trips dispatch the configuration notifications that have arrived  *)
(* by then; FrameConfigure below delivers them.                            *)

Acquire(m, name, a, b, handle) ==
  [Log(m, name, "", a, b) EXCEPT !.live = @ \cup {handle}]

Constructor(width, height, t, is_dialog, has_parent, garbage) ==
  LET m0 == [win |-> [is_maximised |-> garbage.is_maximised,
                      is_fullscreen |-> garbage.is_fullscreen,
                      is_active |-> garbage.is_active,
                      is_dialog |-> is_dialog,
                      width |-> ToInt32(width),
                      height |-> ToInt32(height)],
             egl_window |-> [width |-> 0, height |-> 0, dx |-> 0, dy |-> 0],
             live |-> {"w"}, title |-> "", calls |-> <<>>, result |-> "void"]
      m1 == Acquire(m0, "wl_compositor_create_surface", 0, 0, "surface")
      m2 == [Acquire(m1, "wl_egl_window_create", ToInt32(width), ToInt32(height),
                     "egl_window")
               EXCEPT !.egl_window = [width |-> ToInt32(width),
                                      height |-> ToInt32(height),
                                      dx |-> 0, dy |-> 0]]
      m3 == Log(m2, "wl_surface_set_user_data", "", 0, 0)
      m4 == Acquire(m3, "libdecor_decorate", 0, 0, "frame")
      m5 == Log(m4, "libdecor_frame_map", "", 0, 0)
      m6 == IF has_parent THEN Log(m5, "libdecor_frame_set_parent", "", 0, 0) ELSE m5
      m7 == Log(Log(Log(m6, "wl_display_roundtrip", "", 0, 0),
                    "wl_display_roundtrip", "", 0, 0),
                "wl_display_roundtrip", "", 0, 0)
  IN  setTitle(m7, t)

Garbage == [is_maximised : BOOLEAN, is_fullscreen : BOOLEAN, is_active : BOOLEAN]

-----------------------------------------------------------------------------
(* The state machine *)

\* What `op` records: the operation and its arguments.
Op(name) ==
  [name |-> name, has_size |-> FALSE, width |-> 0, height |-> 0,
   has_state |-> FALSE, window_state |-> 0, wm_ok |-> TRUE,
   state |-> "", title |-> "", type |-> "", init_ok |-> TRUE, result |-> "void"]

\* The configuration notifications libdecor delivers: with or without a
\* content size, with or without a window state.
Configurations ==
  { [has_size |-> TRUE, width |-> sz[1], height |-> sz[2],
     has_state |-> TRUE, window_state |-> ws] :
      sz \in ConfigSizes, ws \in WindowStates }
  \cup { [has_size |-> FALSE, width |-> 0, height |-> 0,
          has_state |-> TRUE, window_state |-> ws] : ws \in WindowStates }
  \cup { [has_size |-> TRUE, width |-> sz[1], height |-> sz[2],
          has_state |-> FALSE, window_state |-> 0] : sz \in ConfigSizes }
  \cup { [has_size |-> FALSE, width |-> 0, height |-> 0,
          has_state |-> FALSE, window_state |-> 0] }

\* setActiveWindow is called, and its answer matters, only for an active state.
WmAnswers(cfg) ==
  IF cfg.has_state /\ HasFlag(cfg.window_state, LIBDECOR_WINDOW_STATE_ACTIVE)
    THEN BOOLEAN ELSE {TRUE}

\* The handler's context becomes the next state.
Do(o, m) ==
  /\ win' = m.win
  /\ egl_window' = m.egl_window
  /\ live' = m.live
  /\ title' = m.title
  /\ calls' = m.calls
  /\ op' = [o EXCEPT !.result = m.result]
  /\ UNCHANGED ctor

Alive == "w" \in live

Init ==
  \E size \in UnsPairs, t \in Titles,
     is_dialog \in BOOLEAN, has_parent \in BOOLEAN, garbage \in Garbage :
    LET width == size[1]
        height == size[2]
        m == Constructor(width, height, t, is_dialog, has_parent, garbage)
    IN  /\ win = m.win
        /\ egl_window = m.egl_window
        /\ live = m.live
        /\ title = m.title
        /\ calls = m.calls
        /\ op = [Op("GHOST_WindowWayland") EXCEPT !.width = width, !.height = height,
                                                   !.title = t]
        /\ ctor = [width |-> width, height |-> height]
        /\ hist = [configured |-> FALSE, sized |-> FALSE]

FrameConfigure ==
  /\ Alive
  /\ \E cfg \in Configurations : \E wm_ok \in WmAnswers(cfg) :
       /\ Do([Op("frame_configure") EXCEPT
                !.has_size = cfg.has_size, !.width = cfg.width, !.height = cfg.height,
                !.has_state = cfg.has_state, !.window_state = cfg.window_state,
                !.wm_ok = wm_ok],
             frame_configure(Ctx, cfg, wm_ok))
       /\ hist' = [configured |-> TRUE, sized |-> hist.sized \/ cfg.has_size]

FrameClose ==
  /\ Alive
  /\ Do(Op("frame_close"), frame_close(Ctx))
  /\ UNCHANGED hist

FrameCommit ==
  /\ Alive
  /\ Do(Op("frame_commit"), frame_commit(Ctx))
  /\ UNCHANGED hist

Close ==
  /\ Alive
  /\ Do(Op("close"), close(Ctx))
  /\ UNCHANGED hist

Activate ==
  /\ Alive
  /\ \E wm_ok \in BOOLEAN :
       Do([Op("activate") EXCEPT !.wm_ok = wm_ok], activate(Ctx, wm_ok))
  /\ UNCHANGED hist

Deactivate ==
  /\ Alive
  /\ Do(Op("deactivate"), deactivate(Ctx))
  /\ UNCHANGED hist

SetTitle ==
  /\ Alive
  /\ \E t \in Titles : Do([Op("setTitle") EXCEPT !.title = t], setTitle(Ctx, t))
  /\ UNCHANGED hist

SetClientSize ==
  /\ Alive
  /\ \E size \in UnsPairs \cup {<<ToUns32(win.width), ToUns32(win.height)>>} :
       Do([Op("setClientSize") EXCEPT !.width = size[1], !.height = size[2]],
          setClientSize(Ctx, size[1], size[2]))
  /\ UNCHANGED hist

SetClientWidth ==
  /\ Alive
  /\ \E width \in UnsSizes :
       Do([Op("setClientWidth") EXCEPT !.width = width], setClientWidth(Ctx, width))
  /\ UNCHANGED hist

SetClientHeight ==
  /\ Alive
  /\ \E height \in UnsSizes :
       Do([Op("setClientHeight") EXCEPT !.height = height], setClientHeight(Ctx, height))
  /\ UNCHANGED hist

SetState ==
  /\ Alive
  /\ \E state \in GHOST_TWindowState :
       Do([Op("setState") EXCEPT !.state = state], setState(Ctx, state))
  /\ UNCHANGED hist

BeginFullScreen ==
  /\ Alive
  /\ Do(Op("beginFullScreen"), beginFullScreen(Ctx))
  /\ UNCHANGED hist

EndFullScreen ==
  /\ Alive
  /\ Do(Op("endFullScreen"), endFullScreen(Ctx))
  /\ UNCHANGED hist

\* setDrawingContextType, called by the constructor (line 169) and by the
\* host, asks the window for a context and is handed the result.
NewDrawingContext ==
  /\ Alive
  /\ \E type \in GHOST_TDrawingContextType, init_ok \in BOOLEAN :
       Do([Op("newDrawingContext") EXCEPT !.type = type, !.init_ok = init_ok],
          newDrawingContext(Ctx, type, init_ok))
  /\ UNCHANGED hist

Destroy ==
  /\ Alive
  /\ Do(Op("~GHOST_WindowWayland"), Destructor(Ctx))
  /\ UNCHANGED hist

Next ==
  \/ FrameConfigure
  \/ FrameClose
  \/ FrameCommit
  \/ Close
  \/ Activate
  \/ Deactivate
  \/ SetTitle
  \/ SetClientSize
  \/ SetClientWidth
  \/ SetClientHeight
  \/ SetState
  \/ BeginFullScreen
  \/ EndFullScreen
  \/ NewDrawingContext
  \/ Destroy

Spec == Init /\ [][Next]_vars

-----------------------------------------------------------------------------
(* Reading the call log *)

\* The positions in `log` of the calls named `name`.
CallsOf(log, name) == {i \in DOMAIN log : log[i].call = name}

\* The positions in `log` of the events of type `type` pushed to the queue.
EventsOf(log, type) ==
  {i \in DOMAIN log : log[i].call = "pushEvent" /\ log[i].kind = type}

\* The names of the calls in `log`, in order.
NamesOf(log) == [i \in DOMAIN log |-> log[i].call]

\* The configuration notification being handled carries active=true.
CfgActive(o) ==
  o.has_state /\ HasFlag(o.window_state, LIBDECOR_WINDOW_STATE_ACTIVE)

-----------------------------------------------------------------------------
(* C1 *)

\* C1 (as claimed): the bounds query returns (0,0,w,h) for the size most
\* recently accepted from the constructor, a configuration notification or
\* an explicit resize call.  Every one of these hands the accepted size to
\* the EGL window (wl_egl_window_create / wl_egl_window_resize), so the
\* accepted size is the EGL window's size.  Stated for the sizes that are
\* positive as an int.
C1_BoundsAreLastAcceptedSize ==
  ( /\ Alive
    /\ win.width > 0 /\ win.height > 0
    /\ egl_window.width > 0 /\ egl_window.height > 0 ) =>
    /\ getClientBounds(win) = <<0, 0, egl_window.width, egl_window.height>>
    /\ getWindowBounds(win) = <<0, 0, egl_window.width, egl_window.height>>

-----------------------------------------------------------------------------
(* C2 *)

\* C2: a configuration notification without a content size leaves width and
\* height as they were, and a window that has handled only such
\* notifications still reports the size it was constructed with (as stored,
\* int32_t(W) and int32_t(H)), not zero.
C2_SizelessConfigureKeepsSize ==
  /\ [][(op'.name = "frame_configure" /\ ~op'.has_size) =>
          /\ win'.width = win.width
          /\ win'.height = win.height
          /\ getClientBounds(win') = getClientBounds(win)]_vars
  /\ [](~hist.sized =>
          getClientBounds(win) = <<0, 0, ToInt32(ctor.width), ToInt32(ctor.height)>>)

C2_Witness ==
  /\ op.name = "frame_configure"
  /\ ~op.has_size
  /\ ~hist.sized
  /\ ctor = [width |-> 2, height |-> 2]
  /\ getClientBounds(win) = <<0, 0, 2, 2>>

-----------------------------------------------------------------------------
(* C3 *)

\* C3 (as claimed): every configuration notification with active=true emits
\* an activation event, every other one a deactivation event.
C3_EveryConfigureEmitsActivation ==
  op.name = "frame_configure" =>
    IF CfgActive(op)
      THEN EventsOf(calls, GHOST_kEventWindowActivate) # {}
      ELSE EventsOf(calls, GHOST_kEventWindowDeactivate) # {}

\* C3 (amended): with active=true exactly one activation event is emitted
\* when the window manager's setActiveWindow succeeds and none when it
\* fails; with active=false or no state exactly one deactivation event is
\* emitted.  This does not depend on the active flag before.
C3_ActivationFollowsWindowManager ==
  op.name = "frame_configure" =>
    LET act == Cardinality(EventsOf(calls, GHOST_kEventWindowActivate))
        deact == Cardinality(EventsOf(calls, GHOST_kEventWindowDeactivate))
    IN  IF CfgActive(op)
          THEN /\ act = (IF op.wm_ok THEN 1 ELSE 0)
               /\ deact = 0
          ELSE /\ act = 0
               /\ deact = 1

\* An active window is told once more that it is active.
C3_Witness ==
  /\ op.name = "frame_configure"
  /\ CfgActive(op)
  /\ op.wm_ok
  /\ calls[1].win.is_active
  /\ EventsOf(calls, GHOST_kEventWindowActivate) # {}

-----------------------------------------------------------------------------
(* C4 *)

\* C4: getState is fullscreen whenever the fullscreen flag is set, maximized
\* only when maximized is set and fullscreen is not, normal otherwise; after
\* a configuration notification with both flags it is fullscreen.
C4_GetStatePriority ==
  Alive =>
    /\ win.is_fullscreen => getState(win) = GHOST_kWindowStateFullScreen
    /\ (win.is_maximised /\ ~win.is_fullscreen) =>
         getState(win) = GHOST_kWindowStateMaximized
    /\ (~win.is_maximised /\ ~win.is_fullscreen) =>
         getState(win) = GHOST_kWindowStateNormal
    /\ ( /\ op.name = "frame_configure"
         /\ op.has_state
         /\ HasFlag(op.window_state, LIBDECOR_WINDOW_STATE_FULLSCREEN)
         /\ HasFlag(op.window_state, LIBDECOR_WINDOW_STATE_MAXIMIZED) ) =>
         getState(win) = GHOST_kWindowStateFullScreen

C4_Witness ==
  /\ op.name = "frame_configure"
  /\ op.has_state
  /\ op.window_state =
       LIBDECOR_WINDOW_STATE_FULLSCREEN + LIBDECOR_WINDOW_STATE_MAXIMIZED
  /\ win.is_maximised
  /\ win.is_fullscreen
  /\ getState(win) = GHOST_kWindowStateFullScreen

-----------------------------------------------------------------------------
(* C5 *)

\* C5 (as claimed): setState(normal) in any state where the maximized flag
\* is set issues unset-maximized and nothing else.  Stated for the flags a
\* configuration notification has set.
C5_NormalWhileMaximizedFlag ==
  ( /\ op.name = "setState"
    /\ op.state = GHOST_kWindowStateNormal
    /\ hist.configured
    /\ win.is_maximised ) =>
    NamesOf(calls) = <<"libdecor_frame_unset_maximized">>

\* C5 (amended): setState(normal) while getState is maximized (maximized set,
\* fullscreen not set) issues unset-maximized and nothing else; with both
\* flags set getState is fullscreen and it issues unset-fullscreen instead.
C5_NormalWhileStateMaximized ==
  (op.name = "setState" /\ op.state = GHOST_kWindowStateNormal) =>
    /\ op.result = GHOST_kSuccess
    /\ (win.is_maximised /\ ~win.is_fullscreen) =>
         NamesOf(calls) = <<"libdecor_frame_unset_maximized">>
    /\ (win.is_maximised /\ win.is_fullscreen) =>
         NamesOf(calls) = <<"libdecor_frame_unset_fullscreen">>

C5_Witness ==
  /\ op.name = "setState"
  /\ op.state = GHOST_kWindowStateNormal
  /\ win.is_maximised
  /\ ~win.is_fullscreen
  /\ hist.configured
  /\ NamesOf(calls) = <<"libdecor_frame_unset_maximized">>

-----------------------------------------------------------------------------
(* C6 *)

\* C6: setState(embedded) returns failure, makes no call at all (so none to
\* the decoration layer), and leaves the flags, the geometry and everything
\* else of the window as it was.
C6_EmbeddedFailsWithoutEffect ==
  [][(op'.name = "setState" /\ op'.state = GHOST_kWindowStateEmbedded) =>
       /\ op'.result = GHOST_kFailure
       /\ calls' = <<>>
       /\ win' = win
       /\ egl_window' = egl_window
       /\ live' = live
       /\ title' = title]_vars

C6_Witness ==
  /\ op.name = "setState"
  /\ op.state = GHOST_kWindowStateEmbedded
  /\ op.result = GHOST_kFailure
  /\ win.is_maximised
  /\ win.is_active

-----------------------------------------------------------------------------
(* C7 *)

\* C7: a close notification pushes exactly one close event and does nothing
\* else: handles, geometry and flags are as before and the window lives on.
C7_CloseNotifyOnlyPushesClose ==
  [][op'.name = "frame_close" =>
       /\ Len(calls') = 1
       /\ calls'[1].call = "pushEvent"
       /\ calls'[1].kind = GHOST_kEventWindowClose
       /\ win' = win
       /\ egl_window' = egl_window
       /\ live' = live
       /\ live' = {"w", "surface", "egl_window", "frame"}
       /\ title' = title]_vars

C7_Witness ==
  /\ op.name = "frame_close"
  /\ Cardinality(EventsOf(calls, GHOST_kEventWindowClose)) = 1
  /\ Alive
  /\ "frame" \in live
  /\ "surface" \in live

-----------------------------------------------------------------------------
(* C8 *)

\* C8: a configuration notification is acknowledged exactly once, by the
\* handler itself, with the adopted size: the content size when one is
\* provided, else the size the window had; and that is the window's width
\* and height when the acknowledgement is made.
C8_ConfigureAcknowledgedOnce ==
  [][op'.name = "frame_configure" =>
       LET adopted == IF op'.has_size THEN <<op'.width, op'.height>>
                      ELSE <<win.width, win.height>>
           acks == CallsOf(calls', "libdecor_frame_commit")
       IN  /\ Cardinality(acks) = 1
           /\ Cardinality(CallsOf(calls', "libdecor_state_new")) = 1
           /\ \A i \in acks :
                /\ i > 1
                /\ calls'[i - 1].call = "libdecor_state_new"
                /\ <<calls'[i - 1].a, calls'[i - 1].b>> = adopted
                /\ <<calls'[i].a, calls'[i].b>> = adopted
                /\ <<calls'[i].win.width, calls'[i].win.height>> = adopted
           /\ <<win'.width, win'.height>> = adopted]_vars

\* Acknowledged with the retained size, although activate failed.
C8_Witness ==
  /\ op.name = "frame_configure"
  /\ ~op.has_size
  /\ CfgActive(op)
  /\ ~op.wm_ok
  /\ \E i \in CallsOf(calls, "libdecor_frame_commit") :
       <<calls[i].a, calls[i].b>> = <<2, 2>>

-----------------------------------------------------------------------------
(* C9 *)

\* C9: a configuration notification pushes exactly one size event, also when
\* the size is the one the window already had, and by then the EGL window
\* has been resized, once, to the adopted size with offset (0,0).
C9_ConfigureAlwaysNotifiesSize ==
  [][op'.name = "frame_configure" =>
       LET adopted == IF op'.has_size THEN <<op'.width, op'.height>>
                      ELSE <<win.width, win.height>>
           sizes == EventsOf(calls', GHOST_kEventWindowSize)
           resizes == CallsOf(calls', "wl_egl_window_resize")
       IN  /\ Cardinality(sizes) = 1
           /\ Cardinality(resizes) = 1
           /\ \A e \in sizes : \A r \in resizes :
                /\ r < e
                /\ <<calls'[r].a, calls'[r].b>> = adopted
                /\ <<calls'[e].win.width, calls'[e].win.height>> = adopted
           /\ egl_window' = [width |-> adopted[1], height |-> adopted[2],
                             dx |-> 0, dy |-> 0]]_vars

\* The size event of a notification that changes nothing about the size.
C9_Witness ==
  /\ op.name = "frame_configure"
  /\ ~op.has_size
  /\ hist.sized
  /\ Cardinality(EventsOf(calls, GHOST_kEventWindowSize)) = 1
  /\ egl_window = [width |-> win.width, height |-> win.height, dx |-> 0, dy |-> 0]

-----------------------------------------------------------------------------
(* C10 *)

\* C10: the destructor releases the frame before it destroys the surface,
\* releases each of the two exactly once, and no call of any operation works
\* on a handle that has been released.
C10_FrameReleasedBeforeSurface ==
  /\ \A i \in DOMAIN calls : HandleOf(calls[i].call) \subseteq calls[i].live
  /\ op.name = "~GHOST_WindowWayland" =>
       LET unrefs == CallsOf(calls, "libdecor_frame_unref")
           destroys == CallsOf(calls, "wl_surface_destroy")
       IN  /\ Cardinality(unrefs) = 1
           /\ Cardinality(destroys) = 1
           /\ \A f \in unrefs : \A d \in destroys :
                /\ f < d
                /\ "frame" \in calls[f].live
                /\ "frame" \notin calls[d].live
                /\ "surface" \in calls[d].live
           /\ live = {}
  /\ op.name # "~GHOST_WindowWayland" =>
       /\ CallsOf(calls, "libdecor_frame_unref") = {}
       /\ CallsOf(calls, "wl_surface_destroy") = {}
       /\ {"frame", "surface"} \subseteq live

C10_Witness ==
  /\ op.name = "~GHOST_WindowWayland"
  /\ live = {}
  /\ CallsOf(calls, "libdecor_frame_unref") # {}
  /\ CallsOf(calls, "wl_surface_destroy") # {}

-----------------------------------------------------------------------------
(* C11 *)

\* C11: setClientSize called with the window's current width and height
\* leaves the bounds as they were: the bounds query returns the same
\* rectangle before and after the call.
C11_SameSizeKeepsBounds ==
  [][( /\ op'.name = "setClientSize"
       /\ op'.width = ToUns32(win.width)
       /\ op'.height = ToUns32(win.height) ) =>
       /\ op'.result = GHOST_kSuccess
       /\ getClientBounds(win') = getClientBounds(win)
       /\ getWindowBounds(win') = getWindowBounds(win)]_vars

\* After a configuration notification has set 1 x MaxConfigSize.
C11_Witness ==
  /\ op.name = "setClientSize"
  /\ op.width = 1
  /\ op.height = MaxConfigSize
  /\ getClientBounds(win) = <<0, 0, 1, MaxConfigSize>>
  /\ egl_window.width = 1
  /\ egl_window.height = MaxConfigSize

-----------------------------------------------------------------------------
(* C12 *)

\* C12 (as claimed): the stored width and height are never negative,
\* whatever unsigned width and height the constructor is given.
C12_SizeNeverNegative ==
  /\ win.width >= 0
  /\ win.height >= 0

-----------------------------------------------------------------------------
(* C13 *)

\* The three flags of a window_t.
FlagsOf(w) == <<w.is_maximised, w.is_fullscreen, w.is_active>>

\* The flags a configuration notification asks for.
CfgFlags(o) ==
  << o.has_state /\ HasFlag(o.window_state, LIBDECOR_WINDOW_STATE_MAXIMIZED),
     o.has_state /\ HasFlag(o.window_state, LIBDECOR_WINDOW_STATE_FULLSCREEN),
     o.has_state /\ HasFlag(o.window_state, LIBDECOR_WINDOW_STATE_ACTIVE) >>

\* The events pushed by the operation with call log `log`.
Pushes(log) == CallsOf(log, "pushEvent")

\* C13 (as claimed): whenever an event is pushed while a configuration
\* notification is handled, width, height and the three flags already hold
\* that notification's values, so getState and the bounds query at push time
\* are those of the new configuration.  Stated for the notifications after
\* the first.
C13_StateHeldAtEveryPush ==
  [][(hist.configured /\ op'.name = "frame_configure") =>
       \A e \in Pushes(calls') :
         /\ FlagsOf(calls'[e].win) = CfgFlags(op')
         /\ getState(calls'[e].win) = getState(win')
         /\ getClientBounds(calls'[e].win) = getClientBounds(win')]_vars

\* C13 (amended): width and height hold the adopted size before the
\* size-changed event is pushed, and the three flags hold the notification's
\* values before the activation or deactivation event is pushed; the flags
\* are written after the size-changed event, so at that push they, and
\* getState, are still those from before the notification.
C13_SizeThenFlags ==
  [][op'.name = "frame_configure" =>
       /\ FlagsOf(win') = CfgFlags(op')
       /\ \A e \in EventsOf(calls', GHOST_kEventWindowSize) :
            /\ getClientBounds(calls'[e].win) = getClientBounds(win')
            /\ FlagsOf(calls'[e].win) = FlagsOf(win)
            /\ getState(calls'[e].win) = getState(win)
       /\ \A e \in EventsOf(calls', GHOST_kEventWindowActivate)
                     \cup EventsOf(calls', GHOST_kEventWindowDeactivate) :
            /\ calls'[e].win = win'
            /\ getState(calls'[e].win) = getState(win')]_vars

\* A notification makes the window fullscreen and resizes it: the size event
\* sees the new size and the old state, the deactivation event the new state.
C13_Witness ==
  /\ op.name = "frame_configure"
  /\ op.has_size
  /\ op.has_state
  /\ op.window_state = LIBDECOR_WINDOW_STATE_FULLSCREEN
  /\ \E e \in EventsOf(calls, GHOST_kEventWindowSize) :
       /\ getClientBounds(calls[e].win) = <<0, 0, op.width, op.height>>
       /\ getState(calls[e].win) = GHOST_kWindowStateNormal
  /\ \E e \in EventsOf(calls, GHOST_kEventWindowDeactivate) :
       getState(calls[e].win) = GHOST_kWindowStateFullScreen

-----------------------------------------------------------------------------
(* C14 *)

\* C14: after a configuration notification the three flags are exactly the
\* ones it provides, and all three are unset when it provides no window
\* state, so that getState is then normal whatever it was before.
C14_FlagsAreTheNotifications ==
  op.name = "frame_configure" =>
    /\ FlagsOf(win) = CfgFlags(op)
    /\ op.has_state =>
         /\ win.is_maximised =
              HasFlag(op.window_state, LIBDECOR_WINDOW_STATE_MAXIMIZED)
         /\ win.is_fullscreen =
              HasFlag(op.window_state, LIBDECOR_WINDOW_STATE_FULLSCREEN)
         /\ win.is_active =
              HasFlag(op.window_state, LIBDECOR_WINDOW_STATE_ACTIVE)
    /\ ~op.has_state =>
         /\ FlagsOf(win) = <<FALSE, FALSE, FALSE>>
         /\ getState(win) = GHOST_kWindowStateNormal

\* A notification without window state reaches a fullscreen window.
C14_Witness ==
  /\ op.name = "frame_configure"
  /\ ~op.has_state
  /\ ~op.has_size
  /\ hist.sized
  /\ getState(calls[1].win) = GHOST_kWindowStateFullScreen
  /\ getState(win) = GHOST_kWindowStateNormal

-----------------------------------------------------------------------------
(* C15 *)

\* C15: getState is always fullscreen, maximized or normal, never minimized
\* or embedded; setState(minimized) succeeds, sends the one minimize command
\* and leaves getState as it was when the command was sent.
C15_MinimizedIsNotTracked ==
  Alive =>
    /\ getState(win) \in { GHOST_kWindowStateFullScreen,
                           GHOST_kWindowStateMaximized,
                           GHOST_kWindowStateNormal }
    /\ (op.name = "setState" /\ op.state = GHOST_kWindowStateMinimized) =>
         /\ op.result = GHOST_kSuccess
         /\ NamesOf(calls) = <<"libdecor_frame_set_minimized">>
         /\ getState(calls[1].win) = getState(win)
         /\ calls[1].win = win

C15_Witness ==
  /\ op.name = "setState"
  /\ op.state = GHOST_kWindowStateMinimized
  /\ op.result = GHOST_kSuccess
  /\ hist.configured
  /\ getState(win) = GHOST_kWindowStateMaximized

-----------------------------------------------------------------------------
(* C16 *)

\* C16: newDrawingContext returns the context it constructed exactly when
\* the context's initialisation reports success, and nullptr when it reports
\* failure: that is what its caller is handed.
C16_ContextOnlyIfInitialised ==
  op.name = "newDrawingContext" =>
    LET class == IF op.type = GHOST_kDrawingContextTypeNone
                   THEN "GHOST_ContextNone" ELSE "GHOST_ContextEGL"
    IN  /\ NamesOf(calls) = <<"new " \o class, "initializeDrawingContext">>
        /\ calls[2].kind = (IF op.init_ok THEN GHOST_kSuccess ELSE GHOST_kFailure)
        /\ (op.result # "nullptr") <=> op.init_ok
        /\ op.init_ok => op.result = class
        /\ ~op.init_ok => op.result = "nullptr"

C16_Witness ==
  /\ op.name = "newDrawingContext"
  /\ op.type = GHOST_kDrawingContextTypeOpenGL
  /\ ~op.init_ok
  /\ op.result = "nullptr"
  /\ CallsOf(calls, "new GHOST_ContextEGL") # {}

-----------------------------------------------------------------------------
(* C17 *)

\* The calls the host makes on the window.
HostCalls ==
  { "setState", "setClientSize", "setClientWidth", "setClientHeight",
    "setTitle", "beginFullScreen", "endFullScreen", "close", "activate",
    "deactivate" }

\* The one-way commands of the decoration layer.
FrameCommands ==
  { "libdecor_frame_set_maximized", "libdecor_frame_set_minimized",
    "libdecor_frame_set_fullscreen", "libdecor_frame_unset_maximized",
    "libdecor_frame_unset_fullscreen" }

\* C17: no host-driven call writes width, height or a flag: they, and so
\* getState, change only in a configuration notification, and the dialog flag
\* never changes; setState, beginFullScreen and endFullScreen send at most one
\* command to the decoration layer and do nothing else.
C17_OnlyConfigureChangesState ==
  [][ /\ op'.name \in HostCalls => win' = win
      /\ win' # win => op'.name = "frame_configure"
      /\ getState(win') # getState(win) => op'.name = "frame_configure"
      /\ win'.is_dialog = win.is_dialog
      /\ op'.name \in {"setState", "beginFullScreen", "endFullScreen"} =>
           /\ Len(calls') <= 1
           /\ \A i \in DOMAIN calls' : calls'[i].call \in FrameCommands
           /\ egl_window' = egl_window ]_vars

\* beginFullScreen has sent its command; the window is still not fullscreen.
C17_Witness ==
  /\ op.name = "beginFullScreen"
  /\ NamesOf(calls) = <<"libdecor_frame_set_fullscreen">>
  /\ hist.configured
  /\ ~win.is_fullscreen
  /\ getState(win) = GHOST_kWindowStateNormal

-----------------------------------------------------------------------------
(* C18 *)

\* C18: an activation event is pushed only right after setActiveWindow has
\* succeeded; when it fails, activate returns failure and pushes nothing,
\* and a configuration notification is acknowledged and its size event
\* pushed all the same; a deactivation event is pushed only right after
\* setWindowInactive.
C18_ActivationAfterWindowManager ==
  /\ \A e \in EventsOf(calls, GHOST_kEventWindowActivate) :
       /\ e > 1
       /\ calls[e - 1].call = "setActiveWindow"
       /\ calls[e - 1].kind = GHOST_kSuccess
  /\ \A i \in CallsOf(calls, "setActiveWindow") :
       calls[i].kind = GHOST_kFailure =>
         EventsOf(calls, GHOST_kEventWindowActivate) = {}
  /\ \A e \in EventsOf(calls, GHOST_kEventWindowDeactivate) :
       /\ e > 1
       /\ calls[e - 1].call = "setWindowInactive"
  /\ op.name = "activate" =>
       IF op.wm_ok
         THEN /\ op.result = GHOST_kSuccess
              /\ Cardinality(Pushes(calls)) = 1
         ELSE /\ op.result = GHOST_kFailure
              /\ Pushes(calls) = {}
  /\ (op.name = "frame_configure" /\ CfgActive(op) /\ ~op.wm_ok) =>
       /\ EventsOf(calls, GHOST_kEventWindowActivate) = {}
       /\ EventsOf(calls, GHOST_kEventWindowDeactivate) = {}
       /\ Cardinality(EventsOf(calls, GHOST_kEventWindowSize)) = 1
       /\ Cardinality(CallsOf(calls, "libdecor_frame_commit")) = 1
  /\ op.name = "deactivate" =>
       NamesOf(calls) = <<"setWindowInactive", "pushEvent">>

\* The window manager refuses the window during a configuration notification.
C18_Witness ==
  /\ op.name = "frame_configure"
  /\ CfgActive(op)
  /\ ~op.wm_ok
  /\ win.is_active
  /\ Pushes(calls) = EventsOf(calls, GHOST_kEventWindowSize)
  /\ CallsOf(calls, "libdecor_frame_commit") # {}

-----------------------------------------------------------------------------
(* C19 *)

\* C19 (as claimed): a window that has handled no configuration notification
\* has its three flags unset, getState is normal and setState(normal) sends
\* no unset command.
C19_FreshWindowIsNormal ==
  (Alive /\ ~hist.configured) =>
    /\ FlagsOf(win) = <<FALSE, FALSE, FALSE>>
    /\ getState(win) = GHOST_kWindowStateNormal
    /\ (op.name = "setState" /\ op.state = GHOST_kWindowStateNormal) =>
         calls = <<>>

====
